---- MODULE Spec2Model ----
(***************************************************************************)
(* A model of caffe2/core/operator.h: the typed Input/Output accessors of  *)
(* OperatorBase, the Run()/RunAsync() protocol of Operator<Context>, the   *)
(* DispatchHelper chains, the device type registry and CreateOperator.     *)
(*                                                                         *)
(* Strings that the code builds by concatenation are modelled as sequences *)
(* of tokens; AppendMessage and operator+ are sequence concatenation.      *)
(***************************************************************************)
EXTENDS Integers, Sequences, FiniteSets, TLC

\* ------------------------------------------------------------------ bounds

\* Invocations of Run()/RunAsync() a caller makes on the operator instance.
MaxCalls == 2
\* Input<T>/Output<T> accesses one RunOnDevice() makes.
MaxAccesses == 2
\* The longest candidate list of a DispatchHelper.
MaxCands == 2
\* The largest device type identifier (0: CPU, 1: CUDA, ...).
MaxDeviceType == 2
\* DeviceTypeRegisterer objects constructed at load time.
MaxRegistrations == 3

\* ------------------------------------------------- the operator definition

\* The OperatorDef the operator was constructed from (the definition of the
\* test, with a second input so that idx matters).
operator_def ==
  [name |-> "test", type |-> "EnsureCPUOutput",
   input |-> <<"X", "W">>, output |-> <<"Y">>]

\* ProtoDebugString(def): the text form of the definition, as tokens.
ProtoDebugString(d) ==
  <<"name: ", d.name, "type: ", d.type, "input: ">> \o d.input
    \o <<"output: ">> \o d.output

\* The types a blob can be asked for, and what it can hold ("none": a blob
\* that was created and never written).
TensorTypes == {"TensorCPU", "TensorCUDA"}
HeldTypes == TensorTypes \cup {"none"}

\* ------------------------------------------------------------ the state

VARIABLES
  inputs,      \* inputs_: the type each input blob holds (index idx + 1)
  outputs,     \* outputs_: the type each output blob holds
  pc,          \* where the current call is
  mode,        \* "none", "Run" or "RunAsync": the call in progress
  ip,          \* the statement of the try block the call is at
  events,      \* the context/RunOnDevice events of the current call, in order
  started,     \* bool started = RunOnDevice()
  finished,    \* bool finished = context_.FinishDeviceComputation()
  retval,      \* the value the call returned
  err,         \* the message of the exception in flight, as tokens
  origin,      \* where the exception in flight was raised
  lastAccess,  \* the last Input<T>/Output<T> access of the current call
  calls,       \* calls completed
  accesses,    \* accesses made by the current RunOnDevice()
  implV,       \* the result of the op's DoRunWithValue<tag>(), per tag
  implT,       \* the result of the op's DoRunWithType<T>(), per type
  dKind,       \* "none", "value" or "type": the dispatch that was made
  vCands,      \* FixedValues<...>: the candidates of the value dispatch
  vValue,      \* the runtime value it was called with
  vOut,        \* what the value dispatch did
  tCands,      \* TensorTypes<...>: the candidates of the type dispatch
  tMeta,       \* the runtime TypeMeta it was called with
  tOut,        \* what the type dispatch did
  gDeviceTypeRegistry,  \* std::map<int32_t, OperatorRegistry*>
  funcCalls,   \* the registry functions called so far, in order
  exited,      \* std::exit(1) was called
  attempts,    \* DeviceTypeRegisterer objects constructed
  lastReg,     \* the last DeviceTypeRegisterer constructed
  opRegistry,  \* per operator registry, the class registered under each key
  createDef,   \* the definition of the last CreateOperator call
  createOut    \* what the last CreateOperator call did

runVars == <<inputs, outputs, pc, mode, ip, events, started, finished, retval,
             err, origin, lastAccess, calls, accesses>>

dispVars == <<implV, implT, dKind, vCands, vValue, vOut, tCands, tMeta, tOut>>

devVars == <<gDeviceTypeRegistry, funcCalls, exited, attempts, lastReg>>

createVars == <<opRegistry, createDef, createOut>>

NoAccess == [kind |-> "none", idx |-> 0, req |-> "none", before |-> "none",
             ok |-> TRUE]

\* ------------------------------------------------------ Blob (blob.h)

\* Blob::IsType<T>()
IsType(held, T) == held = T

\* Blob::Get<T>(): enforces IsType<T>(); the blob is const.
Get(held, T) ==
  IF IsType(held, T)
    THEN [ok |-> TRUE, err |-> <<>>]
    ELSE [ok |-> FALSE, err |-> <<"wrong type for the Blob instance">>]

\* Blob::GetMutable<T>(): returns the held T, or installs a fresh T.
GetMutable(held, T) == IF IsType(held, T) THEN held ELSE T

\* ------------------------------------------------- OperatorBase accessors

\* A plausible slip: the exception is rethrown without the blob's name.
InputNoName(T, idx) == Get(inputs[idx + 1], T)

\* OperatorBase::Input<T>(idx)
Input(T, idx) ==
  LET r == Get(inputs[idx + 1], T)
  IN  IF r.ok
        THEN r
        ELSE [ok |-> FALSE,
              err |-> r.err \o <<".\nOffending Blob name: ">>
                            \o <<operator_def.input[idx + 1]>>
                            \o <<".\n">>]

\* OperatorBase::Output<T>(idx): the output blobs after the access.
Output(T, idx) ==
  [outputs EXCEPT ![idx + 1] = GetMutable(outputs[idx + 1], T)]

\* ------------------------------------------------ Operator<Context>::Run

\* A plausible slip: the computation is issued before the device switch.
RunStepsSwapped ==
  <<"RunOnDevice", "SwitchToDevice", "FinishDeviceComputation", "Return">>

\* The statements of Run()'s try block.
RunSteps ==
  <<"SwitchToDevice", "RunOnDevice", "FinishDeviceComputation", "Return">>

\* A plausible slip: RunAsync() waits for the device like Run().
RunAsyncStepsSynced ==
  <<"SwitchToDevice", "RunOnDevice", "FinishDeviceComputation", "Return">>

\* The statements of RunAsync()'s try block.
RunAsyncSteps == <<"SwitchToDevice", "RunOnDevice", "Return">>

Steps(m) == IF m = "Run" THEN RunSteps ELSE RunAsyncSteps

Cur == IF ip \in 1..Len(Steps(mode)) THEN Steps(mode)[ip] ELSE "end"

\* A plausible slip: the failure is returned instead of logged FATAL.
FinishFailureNotFatal(f) == FALSE

\* if (!finished) LOG(FATAL)
FinishFailureIsFatal(f) == ~f

\* A plausible slip: the computation's own result is dropped.
RunResultFinishedOnly(s, f) == f

\* return (started && finished)
RunResult(s, f) == s /\ f

\* RunAsync(): return RunOnDevice()
RunAsyncResult(s) == s

\* A plausible slip: the handler rethrows without adding the definition.
OperatorCatchBare(e) == e

\* catch (EnforceNotMet& err) { err.AppendMessage(...); throw; }
OperatorCatch(e) ==
  e \o <<"Error from operator: \n">> \o ProtoDebugString(operator_def)

InitRun ==
  /\ inputs \in [1..Len(operator_def.input) -> HeldTypes]
  /\ outputs \in [1..Len(operator_def.output) -> HeldTypes]
  /\ pc = "idle"
  /\ mode = "none"
  /\ ip = 0
  /\ events = <<>>
  /\ started = FALSE
  /\ finished = FALSE
  /\ retval = FALSE
  /\ err = <<>>
  /\ origin = "none"
  /\ lastAccess = NoAccess
  /\ calls = 0
  /\ accesses = 0

\* The caller invokes Run() or RunAsync().
Call(m) ==
  /\ pc = "idle"
  /\ calls < MaxCalls
  /\ mode' = m
  /\ ip' = 1
  /\ pc' = "body"
  /\ UNCHANGED <<inputs, outputs, events, started, finished, retval, err,
                 origin, lastAccess, calls, accesses>>
  /\ UNCHANGED <<dispVars, devVars, createVars>>

\* context_.SwitchToDevice()
StepSwitchToDevice ==
  /\ pc = "body"
  /\ Cur = "SwitchToDevice"
  /\ events' = Append(events, "SwitchToDevice")
  /\ ip' = ip + 1
  /\ UNCHANGED <<inputs, outputs, pc, mode, started, finished, retval, err,
                 origin, lastAccess, calls, accesses>>
  /\ UNCHANGED <<dispVars, devVars, createVars>>

\* RunOnDevice() is entered.
StepEnterRunOnDevice ==
  /\ pc = "body"
  /\ Cur = "RunOnDevice"
  /\ events' = Append(events, "RunOnDevice")
  /\ pc' = "RunOnDevice"
  /\ UNCHANGED <<inputs, outputs, mode, ip, started, finished, retval, err,
                 origin, lastAccess, calls, accesses>>
  /\ UNCHANGED <<dispVars, devVars, createVars>>

\* RunOnDevice() reads an input as a T.
AccessInput(T, idx) ==
  /\ pc = "RunOnDevice"
  /\ accesses < MaxAccesses
  /\ LET r == Input(T, idx)
     IN  /\ lastAccess' = [kind |-> "Input", idx |-> idx, req |-> T,
                           before |-> inputs[idx + 1], ok |-> r.ok]
         /\ IF r.ok
              THEN UNCHANGED <<pc, err, origin>>
              ELSE /\ pc' = "catch"
                   /\ err' = r.err
                   /\ origin' = "Input"
  /\ accesses' = accesses + 1
  /\ UNCHANGED <<inputs, outputs, mode, ip, events, started, finished, retval,
                 calls>>
  /\ UNCHANGED <<dispVars, devVars, createVars>>

\* RunOnDevice() takes an output as a T.
AccessOutput(T, idx) ==
  /\ pc = "RunOnDevice"
  /\ accesses < MaxAccesses
  /\ outputs' = Output(T, idx)
  /\ lastAccess' = [kind |-> "Output", idx |-> idx, req |-> T,
                    before |-> outputs[idx + 1], ok |-> TRUE]
  /\ accesses' = accesses + 1
  /\ UNCHANGED <<inputs, pc, mode, ip, events, started, finished, retval, err,
                 origin, calls>>
  /\ UNCHANGED <<dispVars, devVars, createVars>>

\* A CAFFE_ENFORCE of RunOnDevice() fails: EnforceNotMet.
EnforceFail ==
  /\ pc = "RunOnDevice"
  /\ err' = <<"Enforce failed">>
  /\ origin' = "Enforce"
  /\ pc' = "catch"
  /\ UNCHANGED <<inputs, outputs, mode, ip, events, started, finished, retval,
                 lastAccess, calls, accesses>>
  /\ UNCHANGED <<dispVars, devVars, createVars>>

\* RunOnDevice() throws something that is no EnforceNotMet: no handler of
\* Run()/RunAsync() matches and it reaches the caller as it is.
RaiseOther ==
  /\ pc = "RunOnDevice"
  /\ err' = <<"std::exception">>
  /\ origin' = "Other"
  /\ pc' = "raised"
  /\ UNCHANGED <<inputs, outputs, mode, ip, events, started, finished, retval,
                 lastAccess, calls, accesses>>
  /\ UNCHANGED <<dispVars, devVars, createVars>>

\* RunOnDevice() returns b.
ReturnFromRunOnDevice(b) ==
  /\ pc = "RunOnDevice"
  /\ started' = b
  /\ events' = Append(events, "RunOnDeviceReturned")
  /\ pc' = "body"
  /\ ip' = ip + 1
  /\ UNCHANGED <<inputs, outputs, mode, finished, retval, err, origin,
                 lastAccess, calls, accesses>>
  /\ UNCHANGED <<dispVars, devVars, createVars>>

\* finished = context_.FinishDeviceComputation(); if (!finished) LOG(FATAL)
StepFinishDeviceComputation ==
  /\ pc = "body"
  /\ Cur = "FinishDeviceComputation"
  /\ \E f \in BOOLEAN :
       /\ finished' = f
       /\ events' = Append(events, "FinishDeviceComputation")
       /\ IF FinishFailureIsFatal(f)
            THEN pc' = "fatal" /\ ip' = ip
            ELSE pc' = pc /\ ip' = ip + 1
  /\ UNCHANGED <<inputs, outputs, mode, started, retval, err, origin,
                 lastAccess, calls, accesses>>
  /\ UNCHANGED <<dispVars, devVars, createVars>>

\* The return statement of the try block.
StepReturn ==
  /\ pc = "body"
  /\ Cur = "Return"
  /\ retval' = IF mode = "Run" THEN RunResult(started, finished)
                               ELSE RunAsyncResult(started)
  /\ pc' = "returned"
  /\ UNCHANGED <<inputs, outputs, mode, ip, events, started, finished, err,
                 origin, lastAccess, calls, accesses>>
  /\ UNCHANGED <<dispVars, devVars, createVars>>

\* The EnforceNotMet handler of Run()/RunAsync().
Catch ==
  /\ pc = "catch"
  /\ err' = OperatorCatch(err)
  /\ pc' = "raised"
  /\ UNCHANGED <<inputs, outputs, mode, ip, events, started, finished, retval,
                 origin, lastAccess, calls, accesses>>
  /\ UNCHANGED <<dispVars, devVars, createVars>>

\* The call is over (a value or an exception reached the caller), and the
\* caller may call again.
BackToCaller ==
  /\ pc \in {"returned", "raised"}
  /\ pc' = "idle"
  /\ mode' = "none"
  /\ ip' = 0
  /\ events' = <<>>
  /\ started' = FALSE
  /\ finished' = FALSE
  /\ retval' = FALSE
  /\ err' = <<>>
  /\ origin' = "none"
  /\ lastAccess' = NoAccess
  /\ accesses' = 0
  /\ calls' = calls + 1
  /\ UNCHANGED <<inputs, outputs>>
  /\ UNCHANGED <<dispVars, devVars, createVars>>

NextRun ==
  \/ \E m \in {"Run", "RunAsync"} : Call(m)
  \/ StepSwitchToDevice
  \/ StepEnterRunOnDevice
  \/ \E T \in TensorTypes, idx \in 0..(Len(operator_def.input) - 1) :
       AccessInput(T, idx)
  \/ \E T \in TensorTypes, idx \in 0..(Len(operator_def.output) - 1) :
       AccessOutput(T, idx)
  \/ EnforceFail
  \/ RaiseOther
  \/ \E b \in BOOLEAN : ReturnFromRunOnDevice(b)
  \/ StepFinishDeviceComputation
  \/ StepReturn
  \/ Catch
  \/ BackToCaller

\* ------------------------------------------------------- DispatchHelper

\* The tag of the generic specialization, DoRunWithValue<-1>.
GenericTag == -1

\* The integers the candidates and the runtime value are drawn from.
CandidateValues == {GenericTag, 1, 4, 7}
RuntimeValues == CandidateValues \cup {0}

\* The element types the candidates are drawn from, and the runtime types.
ElemTypes == {"int32_t", "int64_t", "float"}
RuntimeTypes == ElemTypes \cup {"double"}

SeqsUpTo(S, n) == UNION {[1..k -> S] : k \in 0..n}

NoOut == [invoked |-> <<>>, result |-> FALSE, threw |-> FALSE, msg |-> <<>>]

\* op->DoRunWithValue<tag>(): the op's specialization runs and returns.
DoRunWithValue(tag) ==
  [invoked |-> <<tag>>, result |-> implV[tag], threw |-> FALSE, msg |-> <<>>]

\* op->DoRunWithType<T>()
DoRunWithType(T) ==
  [invoked |-> <<T>>, result |-> implT[T], threw |-> FALSE, msg |-> <<>>]

\* TypeMeta::Match<T>()
Match(meta, T) == meta = T

\* TypeMeta::name(): the printable name of the runtime type.
MetaName(meta) ==
  CASE meta = "int32_t" -> "int"
    [] meta = "int64_t" -> "long"
    [] meta = "float" -> "float"
    [] OTHER -> "double"

\* A plausible slip ("=" for "=="): the first candidate always matches.
DispatchValueFirstAlways(cands, value) ==
  IF cands = <<>> THEN DoRunWithValue(GenericTag) ELSE DoRunWithValue(Head(cands))

\* DispatchHelper<FixedValues<FirstVal, Values...>>::call(op, value)
RECURSIVE DispatchValue(_, _)
DispatchValue(cands, value) ==
  IF cands = <<>>
    THEN DoRunWithValue(GenericTag)
    ELSE IF Head(cands) = value
           THEN DoRunWithValue(Head(cands))
           ELSE DispatchValue(Tail(cands), value)

\* A plausible slip: the exhausted list falls back to the last candidate.
RECURSIVE DispatchTypeFallback(_, _)
DispatchTypeFallback(cands, meta) ==
  IF cands = <<>>
    THEN [invoked |-> <<>>, result |-> FALSE, threw |-> TRUE,
          msg |-> <<"Unsupported type of tensor: ", MetaName(meta)>>]
    ELSE IF Match(meta, Head(cands)) \/ Len(cands) = 1
           THEN DoRunWithType(Head(cands))
           ELSE DispatchTypeFallback(Tail(cands), meta)

\* DispatchHelper<TensorTypes<FirstType, Types...>>::call(op, meta)
RECURSIVE DispatchType(_, _)
DispatchType(cands, meta) ==
  IF cands = <<>>
    THEN [invoked |-> <<>>, result |-> FALSE, threw |-> TRUE,
          msg |-> <<"Unsupported type of tensor: ", MetaName(meta)>>]
    ELSE IF Match(meta, Head(cands))
           THEN DoRunWithType(Head(cands))
           ELSE DispatchType(Tail(cands), meta)

InitDispatch ==
  /\ implV \in [CandidateValues -> BOOLEAN]
  /\ implT \in [ElemTypes -> BOOLEAN]
  /\ dKind = "none"
  /\ vCands = <<>>
  /\ vValue = 0
  /\ vOut = NoOut
  /\ tCands = <<>>
  /\ tMeta = "none"
  /\ tOut = NoOut

\* An op calls DispatchHelper<FixedValues<cands...>>::call(this, value). The
\* dispatch is a function of its arguments and the op: each behaviour applies
\* it once.
CallValueDispatch(cands, value) ==
  /\ dKind = "none"
  /\ dKind' = "value"
  /\ vCands' = cands
  /\ vValue' = value
  /\ vOut' = DispatchValue(cands, value)
  /\ tCands' = <<>>
  /\ tMeta' = "none"
  /\ tOut' = NoOut
  /\ UNCHANGED <<implV, implT>>
  /\ UNCHANGED <<runVars, devVars, createVars>>

\* An op calls DispatchHelper<TensorTypes<cands...>>::call(this, meta).
CallTypeDispatch(cands, meta) ==
  /\ dKind = "none"
  /\ dKind' = "type"
  /\ tCands' = cands
  /\ tMeta' = meta
  /\ tOut' = DispatchType(cands, meta)
  /\ vCands' = <<>>
  /\ vValue' = 0
  /\ vOut' = NoOut
  /\ UNCHANGED <<implV, implT>>
  /\ UNCHANGED <<runVars, devVars, createVars>>

NextDispatch ==
  \/ \E cands \in SeqsUpTo(CandidateValues, MaxCands), value \in RuntimeValues :
       CallValueDispatch(cands, value)
  \/ \E cands \in SeqsUpTo(ElemTypes, MaxCands), meta \in RuntimeTypes :
       CallTypeDispatch(cands, meta)

\* -------------------------------------------------- the device registry

DeviceTypes == 0..MaxDeviceType

\* The registry functions; each returns the registry it is named after.
RegistryFunctions == {"CPUOperatorRegistry", "CUDAOperatorRegistry"}

\* gDeviceTypeRegistry()->count(type)
CountType(map, type) == IF type \in DOMAIN map THEN 1 ELSE 0

\* std::map::emplace: inserts when the key is new, and only then.
Emplace(map, type, registry) ==
  IF type \in DOMAIN map THEN map ELSE map @@ (type :> registry)

\* A plausible slip: the duplicate check is missing.
NeverRegistered(map, type) == FALSE

\* if (gDeviceTypeRegistry()->count(type))
AlreadyRegistered(map, type) == CountType(map, type) # 0

NoReg == [type |-> 0, func |-> "none", present |-> FALSE]

InitDevice ==
  /\ gDeviceTypeRegistry = <<>>
  /\ funcCalls = <<>>
  /\ exited = FALSE
  /\ attempts = 0
  /\ lastReg = NoReg

\* DeviceTypeRegisterer(type, func), at load time.
DeviceTypeRegisterer(type, func) ==
  /\ ~exited
  /\ attempts < MaxRegistrations
  /\ attempts' = attempts + 1
  /\ lastReg' = [type |-> type, func |-> func,
                 present |-> type \in DOMAIN gDeviceTypeRegistry]
  /\ IF AlreadyRegistered(gDeviceTypeRegistry, type)
       THEN /\ exited' = TRUE
            /\ UNCHANGED <<gDeviceTypeRegistry, funcCalls>>
       ELSE /\ funcCalls' = Append(funcCalls, func)
            /\ gDeviceTypeRegistry' = Emplace(gDeviceTypeRegistry, type, func)
            /\ UNCHANGED exited
  /\ UNCHANGED <<runVars, dispVars, createVars>>

NextDevice ==
  \E type \in DeviceTypes, func \in RegistryFunctions :
    DeviceTypeRegisterer(type, func)

\* ------------------------------------------------------- CreateOperator

\* REGISTER_*_OPERATOR_WITH_ENGINE(name, engine, ...): name##_ENGINE_##engine
EngineKey(name, engine) == <<name, "_ENGINE_", engine>>

\* REGISTER_*_OPERATOR(name, ...)
PlainKey(name) == <<name>>

OpTypes == {"Conv"}
Engines == {"", "CUDNN"}
Orders == {"NCHW", "NHWC"}
Keys == {PlainKey(t) : t \in OpTypes}
          \cup {EngineKey(t, e) : t \in OpTypes, e \in Engines \ {""}}

\* The operator classes a key can be registered with ("absent": no entry).
\*   GeneralOp     constructs from every definition;
\*   RestrictedOp  OPERATOR_NEEDS_FEATURE(order == "NCHW", ...);
\*   EnforcingOp   CAFFE_ENFORCE(order == "NCHW", ...) in its constructor.
OpClasses == {"GeneralOp", "RestrictedOp", "EnforcingOp"}

OperatorDefs ==
  [type : OpTypes, engine : Engines, order : Orders, device_type : DeviceTypes]

\* A plausible slip: the macro throws the wrong kind of exception.
OPERATOR_NEEDS_FEATURE_Enforce(condition, message) ==
  IF ~condition
    THEN [signal |-> "EnforceNotMet", msg |-> message]
    ELSE [signal |-> "none", msg |-> ""]

\* OPERATOR_NEEDS_FEATURE(condition, message)
OPERATOR_NEEDS_FEATURE(condition, message) ==
  IF ~condition
    THEN [signal |-> "UnsupportedOperatorFeature", msg |-> message]
    ELSE [signal |-> "none", msg |-> ""]

\* The constructor of class cls on definition d: what it throws, if anything.
Construct(cls, d) ==
  CASE cls = "RestrictedOp" ->
         OPERATOR_NEEDS_FEATURE(d.order = "NCHW", "only NCHW is supported")
    [] cls = "EnforcingOp" ->
         IF d.order = "NCHW"
           THEN [signal |-> "none", msg |-> ""]
           ELSE [signal |-> "EnforceNotMet", msg |-> "order"]
    [] OTHER -> [signal |-> "none", msg |-> ""]

Failure(signal, tried) == [signal |-> signal, op |-> "null", tried |-> tried]

\* The plain <type> entry is tried (after the keys in tried).
CreatePlain(registry, d, tried) ==
  LET key == PlainKey(d.type)
      cls == registry[key]
      c   == Construct(cls, d)
  IN  IF cls = "absent"
        THEN Failure("OperatorNotFound", tried)
        ELSE IF c.signal = "none"
               THEN [signal |-> "none", op |-> cls, tried |-> Append(tried, key)]
               ELSE IF c.signal = "UnsupportedOperatorFeature"
                      THEN Failure("OperatorNotFound", Append(tried, key))
                      ELSE Failure(c.signal, Append(tried, key))

\* CreateOperator(operator_def, ws)
CreateOperator(d) ==
  IF d.device_type \notin DOMAIN gDeviceTypeRegistry
    THEN Failure("DeviceNotFound", <<>>)
    ELSE
      LET registry == opRegistry[gDeviceTypeRegistry[d.device_type]]
          key      == EngineKey(d.type, d.engine)
      IN  IF d.engine = "" \/ registry[key] = "absent"
            THEN CreatePlain(registry, d, <<>>)
            ELSE
              LET c == Construct(registry[key], d)
              IN  IF c.signal = "none"
                    THEN [signal |-> "none", op |-> registry[key],
                          tried |-> <<key>>]
                    ELSE IF c.signal = "UnsupportedOperatorFeature"
                           THEN CreatePlain(registry, d, <<key>>)
                           ELSE Failure(c.signal, <<key>>)

NoDef == [type |-> "none", engine |-> "", order |-> "none", device_type |-> 0]

\* After load time: some device types are registered, each operator registry
\* holds the classes that were registered under its keys.
InitCreate ==
  /\ \E D \in SUBSET DeviceTypes :
       gDeviceTypeRegistry \in [D -> RegistryFunctions]
  /\ funcCalls = <<>>
  /\ exited = FALSE
  /\ attempts = 0
  /\ lastReg = NoReg
  /\ opRegistry \in [RegistryFunctions -> [Keys -> OpClasses \cup {"absent"}]]
  /\ createDef = NoDef
  /\ createOut = Failure("none", <<>>)

\* A caller creates an operator from definition d. The outcome is a function
\* of the definition and the registries, which it leaves alone: each
\* behaviour applies it once.
CallCreateOperator(d) ==
  /\ createDef = NoDef
  /\ createDef' = d
  /\ createOut' = CreateOperator(d)
  /\ UNCHANGED <<opRegistry, devVars>>
  /\ UNCHANGED <<runVars, dispVars>>

NextCreate == \E d \in OperatorDefs : CallCreateOperator(d)

\* ---------------------------------------- the parts a specification omits

RunOff ==
  /\ inputs = <<>>
  /\ outputs = <<>>
  /\ pc = "off"
  /\ mode = "none"
  /\ ip = 0
  /\ events = <<>>
  /\ started = FALSE
  /\ finished = FALSE
  /\ retval = FALSE
  /\ err = <<>>
  /\ origin = "none"
  /\ lastAccess = NoAccess
  /\ calls = 0
  /\ accesses = 0

DispatchOff ==
  /\ implV = <<>>
  /\ implT = <<>>
  /\ dKind = "none"
  /\ vCands = <<>>
  /\ vValue = 0
  /\ vOut = NoOut
  /\ tCands = <<>>
  /\ tMeta = "none"
  /\ tOut = NoOut

CreateOff ==
  /\ opRegistry = <<>>
  /\ createDef = NoDef
  /\ createOut = Failure("none", <<>>)

\* ------------------------------------------- properties of Run / RunAsync

\* Every b in e comes after some a in e.
Precedes(e, a, b) ==
  \A i \in 1..Len(e) : e[i] = b => \E j \in 1..(i - 1) : e[j] = a

Count(e, a) == Cardinality({i \in 1..Len(e) : e[i] = a})

\* e holds tok right after the token before.
HasPair(e, before, tok) ==
  \E i \in 1..(Len(e) - 1) : e[i] = before /\ e[i + 1] = tok

IsSuffix(s, e) ==
  /\ Len(s) <= Len(e)
  /\ SubSeq(e, Len(e) - Len(s) + 1, Len(e)) = s

RunEvents ==
  <<"SwitchToDevice", "RunOnDevice", "RunOnDeviceReturned",
    "FinishDeviceComputation">>

\* C1: in every Run() the events come in the order SwitchToDevice,
\* RunOnDevice, FinishDeviceComputation: RunOnDevice is never entered before
\* the switch of the same call, FinishDeviceComputation is never called
\* before RunOnDevice has returned, and each happens at most once; a Run()
\* that returns has gone through all of them.
C1_RunOrder ==
  mode = "Run" =>
    /\ Precedes(events, "SwitchToDevice", "RunOnDevice")
    /\ Precedes(events, "RunOnDevice", "RunOnDeviceReturned")
    /\ Precedes(events, "RunOnDeviceReturned", "FinishDeviceComputation")
    /\ \A ev \in {RunEvents[i] : i \in 1..Len(RunEvents)} : Count(events, ev) <= 1
    /\ (pc \in {"returned", "fatal"} => events = RunEvents)

C1_Witness == mode = "Run" /\ pc = "returned" /\ events = RunEvents

\* C2: whenever FinishDeviceComputation reports failure inside Run(), the
\* process is terminated (LOG(FATAL)) and Run() returns nothing, whatever
\* RunOnDevice returned; a Run() that returned had a successful
\* synchronization.
C2_FinishFailureFatal ==
  mode = "Run" =>
    /\ (Count(events, "FinishDeviceComputation") > 0 /\ ~finished
          => pc = "fatal")
    /\ (pc = "returned" => finished)

C2_Witness ==
  mode = "Run" /\ pc = "fatal" /\ ~finished /\ started
    /\ Count(events, "FinishDeviceComputation") = 1

\* C3: Run() returns true if and only if RunOnDevice returned true and
\* FinishDeviceComputation reported success; when RunOnDevice returned false
\* and the synchronization succeeded, Run() returns false.
C3_RunResult ==
  (mode = "Run" /\ pc = "returned") =>
    /\ (retval <=> (started /\ finished
                      /\ Count(events, "RunOnDeviceReturned") = 1
                      /\ Count(events, "FinishDeviceComputation") = 1))
    /\ (~started /\ finished => retval = FALSE)

C3_Witness ==
  mode = "Run" /\ pc = "returned" /\ ~started /\ finished /\ ~retval

\* C4: RunAsync() switches to the device, runs RunOnDevice and returns its
\* result; it never calls FinishDeviceComputation, so it never ends in the
\* fatal state of a failed synchronization.
C4_RunAsync ==
  mode = "RunAsync" =>
    /\ Count(events, "FinishDeviceComputation") = 0
    /\ pc # "fatal"
    /\ Precedes(events, "SwitchToDevice", "RunOnDevice")
    /\ (pc = "returned" =>
          /\ events = <<"SwitchToDevice", "RunOnDevice", "RunOnDeviceReturned">>
          /\ retval = started)

C4_Witness ==
  mode = "RunAsync" /\ pc = "returned" /\ retval /\ started

Mismatch == lastAccess.req # lastAccess.before

\* The exception in flight carries the declared name of the accessed blob.
NamesBlob(names) ==
  HasPair(err, ".\nOffending Blob name: ", names[lastAccess.idx + 1])

\* C7 as stated: an Input<T>(idx) or Output<T>(idx) whose T is not the type
\* the blob holds fails with an error that carries the declared name, and
\* leaves the held type alone.
C7_AsStated ==
  /\ (lastAccess.kind = "Input" /\ Mismatch) =>
       /\ ~lastAccess.ok
       /\ pc \in {"catch", "raised"}
       /\ NamesBlob(operator_def.input)
       /\ inputs[lastAccess.idx + 1] = lastAccess.before
  /\ (lastAccess.kind = "Output" /\ Mismatch) =>
       /\ ~lastAccess.ok
       /\ pc \in {"catch", "raised"}
       /\ NamesBlob(operator_def.output)
       /\ outputs[lastAccess.idx + 1] = lastAccess.before

\* C7 (amended): an Input<T>(idx) whose T is not the type the blob holds
\* fails with a type-mismatch error that carries the declared name of that
\* input, and leaves the held type alone; an Output<T>(idx) whose T is not
\* the type the blob holds does not fail: the blob holds a T afterwards.
C7_InputMismatchFails ==
  /\ (lastAccess.kind = "Input" /\ Mismatch) =>
       /\ ~lastAccess.ok
       /\ pc \in {"catch", "raised"}
       /\ origin = "Input"
       /\ NamesBlob(operator_def.input)
       /\ inputs[lastAccess.idx + 1] = lastAccess.before
  /\ (lastAccess.kind = "Input" /\ ~Mismatch) => lastAccess.ok
  /\ (lastAccess.kind = "Output" /\ Mismatch) =>
       /\ lastAccess.ok
       /\ origin # "Input"
       /\ outputs[lastAccess.idx + 1] = lastAccess.req

C7_Witness ==
  /\ lastAccess.kind = "Input" /\ Mismatch /\ lastAccess.before # "none"
  /\ pc = "raised"

\* C10: an EnforceNotMet raised while Run() or RunAsync() executes
\* RunOnDevice is never turned into a return value: it reaches the caller
\* with the definition's debug text appended last, and when it came from a
\* type-mismatched Input<T>(idx) the offending blob's name was appended
\* before that text; in Run() no FinishDeviceComputation was called.
C10_EnforceEnriched ==
  origin \in {"Input", "Enforce"} =>
    /\ pc \in {"catch", "raised"}
    /\ Count(events, "FinishDeviceComputation") = 0
    /\ pc = "raised" =>
         LET tail == <<"Error from operator: \n">>
                       \o ProtoDebugString(operator_def)
             base == SubSeq(err, 1, Len(err) - Len(tail))
         IN  /\ IsSuffix(tail, err)
             /\ Len(base) > 0
             /\ origin = "Input" =>
                  IsSuffix(<<".\nOffending Blob name: ",
                             operator_def.input[lastAccess.idx + 1], ".\n">>,
                           base)

C10_Witness ==
  mode = "Run" /\ pc = "raised" /\ origin = "Input" /\ lastAccess.idx = 1

vars == <<runVars, dispVars, devVars, createVars>>

\* ------------------------------------------- properties of the dispatch

\* The positions of cands that hold x.
Positions(cands, x) == {i \in 1..Len(cands) : cands[i] = x}

Least(S) == CHOOSE i \in S : \A j \in S : i <= j

\* C5: value dispatch over an ordered candidate list with runtime integer v
\* invokes exactly one specialization: the one of the first candidate that
\* equals v, or the generic one, tagged -1, when no candidate equals v; the
\* dispatch returns that specialization's result. Candidates <<1, 4>>: v = 4
\* invokes the 4-specialization, v = 7 the -1 one.
C5_ValueDispatch ==
  dKind = "value" =>
    LET hits == Positions(vCands, vValue)
        tag  == IF hits = {} THEN -1 ELSE vCands[Least(hits)]
    IN  /\ vOut.invoked = <<tag>>
        /\ ~vOut.threw
        /\ vOut.result = implV[tag]
        /\ (vCands = <<1, 4>> /\ vValue = 4 => vOut.invoked = <<4>>)
        /\ (vCands = <<1, 4>> /\ vValue = 7 => vOut.invoked = <<-1>>)

C5_Witness ==
  /\ dKind = "value" /\ vCands = <<1, 4>> /\ vValue = 4
  /\ vOut.invoked = <<4>> /\ implV[4] /\ ~implV[1] /\ ~implV[-1] /\ vOut.result

\* C6: type dispatch over an ordered list of candidate element types invokes
\* the specialization of the first candidate that matches the runtime type;
\* when no candidate matches it invokes no specialization and fails with an
\* "unsupported type" error whose message holds the runtime type's name.
C6_TypeDispatch ==
  dKind = "type" =>
    LET hits == Positions(tCands, tMeta)
    IN  IF hits # {}
          THEN /\ tOut.invoked = <<tCands[Least(hits)]>>
               /\ ~tOut.threw
               /\ tOut.result = implT[tCands[Least(hits)]]
          ELSE /\ tOut.invoked = <<>>
               /\ tOut.threw
               /\ tOut.msg = <<"Unsupported type of tensor: ", MetaName(tMeta)>>

C6_Witness ==
  /\ dKind = "type" /\ tCands = <<"int32_t", "int64_t">> /\ tMeta = "float"
  /\ tOut.threw /\ tOut.invoked = <<>>

\* ---------------------------------- properties of the device registry

\* C8: the device type registry holds one registry per device type and an
\* entry is never overwritten: constructing a DeviceTypeRegisterer for a
\* device type that is present exits the process, with the map as it was and
\* without calling the second registry function; every other registration
\* calls its registry function once and adds its entry.
C8_NoDuplicateDeviceType ==
  [][ /\ \A t \in DOMAIN gDeviceTypeRegistry :
           /\ t \in DOMAIN gDeviceTypeRegistry'
           /\ gDeviceTypeRegistry'[t] = gDeviceTypeRegistry[t]
      /\ (attempts' # attempts /\ lastReg'.type \in DOMAIN gDeviceTypeRegistry) =>
           /\ exited'
           /\ gDeviceTypeRegistry' = gDeviceTypeRegistry
           /\ funcCalls' = funcCalls
      /\ (attempts' # attempts /\ lastReg'.type \notin DOMAIN gDeviceTypeRegistry) =>
           /\ ~exited'
           /\ funcCalls' = Append(funcCalls, lastReg'.func)
           /\ gDeviceTypeRegistry'[lastReg'.type] = lastReg'.func
      /\ (exited => UNCHANGED vars)
    ]_vars

C8_Witness ==
  /\ exited /\ lastReg.present
  /\ lastReg.func # gDeviceTypeRegistry[lastReg.type]
  /\ Len(funcCalls) = Cardinality(DOMAIN gDeviceTypeRegistry)
  /\ Len(funcCalls) = 2

\* ------------------------------------------ properties of CreateOperator

\* The definition names an engine, its device type is registered, the
\* engine-qualified entry is a class whose constructor needs a feature the
\* definition lacks, and a plain entry is registered.
EngineUnsupported ==
  /\ createDef # NoDef
  /\ createDef.engine # ""
  /\ createDef.device_type \in DOMAIN gDeviceTypeRegistry
  /\ LET registry == opRegistry[gDeviceTypeRegistry[createDef.device_type]]
     IN  /\ registry[EngineKey(createDef.type, createDef.engine)] = "RestrictedOp"
         /\ createDef.order # "NCHW"
         /\ registry[PlainKey(createDef.type)] # "absent"

\* C9: CreateOperator on a definition that names an engine whose
\* engine-qualified entry raises UnsupportedOperatorFeature during
\* construction falls back to the plain entry, given one is registered, and
\* returns the operator the plain entry constructs; the signal of the
\* engine-qualified constructor does not reach the caller, and a call that
\* does not raise never returns null.
C9_EngineFallback ==
  /\ EngineUnsupported =>
       LET registry == opRegistry[gDeviceTypeRegistry[createDef.device_type]]
           plain    == registry[PlainKey(createDef.type)]
       IN  /\ createOut.tried = <<EngineKey(createDef.type, createDef.engine),
                                  PlainKey(createDef.type)>>
           /\ createOut.signal # "UnsupportedOperatorFeature"
           /\ (plain = "GeneralOp" =>
                 createOut.signal = "none" /\ createOut.op = "GeneralOp")
  /\ createDef # NoDef =>
       /\ createOut.signal # "UnsupportedOperatorFeature"
       /\ (createOut.signal = "none" <=> createOut.op # "null")

C9_Witness ==
  EngineUnsupported /\ createOut.signal = "none" /\ createOut.op = "GeneralOp"

InitSpecRun == InitRun /\ DispatchOff /\ InitDevice /\ CreateOff

SpecRun == InitSpecRun /\ [][NextRun]_vars

InitSpecDispatch == InitDispatch /\ RunOff /\ InitDevice /\ CreateOff

SpecDispatch == InitSpecDispatch /\ [][NextDispatch]_vars

InitSpecDevice == InitDevice /\ RunOff /\ DispatchOff /\ CreateOff

SpecDevice == InitSpecDevice /\ [][NextDevice]_vars

InitSpecCreate == InitCreate /\ RunOff /\ DispatchOff

SpecCreate == InitSpecCreate /\ [][NextCreate]_vars

====
